---- MODULE Spec2Model ----
(***************************************************************************)
(* A model of client.py: the RRTable record cache with its background TTL  *)
(* decay thread, and handle_request, the query/response transaction that   *)
(* fills the cache over a UDP socket.                                      *)
(*                                                                         *)
(* SpecCache is RRTable under arbitrary callers of its public methods,     *)
(* the decay tick taken statement by statement while it holds the lock; a  *)
(* public method, which holds the lock from its first statement to its     *)
(* last, is one step that waits for the lock. SpecTrack is the same with   *)
(* the ticks since one insert counted. Spec is main's loop calling         *)
(* handle_request against a peer that may send anything at any time, the   *)
(* tick taken as one step. SpecQueue is the same against a peer that       *)
(* answers the queries it is sent, its replies arriving late or in time.   *)
(*                                                                         *)
(* UDPConnection.receive_message is read with its try block inside the     *)
(* method, as its except clauses are indented.                             *)
(***************************************************************************)
EXTENDS Integers, Sequences, FiniteSets, TLC

(* ------------------------------ bounds -------------------------------- *)

\* The largest number of records the cache is filled to.
MaxRecs == 2

\* The largest ttl handed to add_record.
MaxTtl == 2

\* The largest number of datagrams queued in the socket.
MaxInbox == 1

\* The largest number of handle_request calls that miss the cache in a run.
MaxReqs == 2

\* The largest number of decay ticks in a run with handle_request calls.
MaxTicks == 2

(* ----------------------------- constants ------------------------------ *)

QUERY_FLAG == "0000"
RESP_FLAG == "0001"
NOT_FOUND == "Record not found"

\* Python's None (and an absent dict key) is the empty sequence, a present
\* value v is <<v>>.
None == <<>>
Some(v) == <<v>>

Names == {"a.com", "b.com"}
Types == {"A", "NS"}
Results == {"1.2.3.4"}

\* The (name, type) pairs the callers use.
Keys == {<<"a.com", "A">>, <<"a.com", "NS">>, <<"b.com", "A">>}

\* The ttl arguments add_record is called with: None and small integers.
TtlArgs == {None} \cup {Some(n) : n \in (-1)..MaxTtl}

\* The age at which the count of ticks since a tracked insert stops.
AgeCap == MaxTtl + 2

VARIABLES
    records,        \* RRTable.records: the list of record dicts
    record_number,  \* RRTable.record_number: the insert counter
    lock,           \* RRTable.lock: "free", or "bg" while a decay tick holds it
    bgpc,           \* the decay thread's position in __decrement_ttl
    bgi,            \* the decay thread's loop index
    kept,           \* __remove_expired_records' local list
    pre,            \* history: records as the running tick found them
    hit,            \* the caller's last get_record result
    shown,          \* the rows the last display_table printed, None before any
    tr,             \* history: the insert whose age is being counted
    pc,             \* the foreground thread's position in main / handle_request
    hostname,       \* handle_request's hostname
    qtype,          \* handle_request's qtype_name
    tx_id,          \* handle_request's tx_id
    inbox,          \* the ids of the datagrams queued in the socket, oldest first
    net,            \* the replies the peer has sent that have not arrived yet
    resp,           \* the datagram the attempt received, None if none
    pend,           \* the arguments of the add_record about to be called
    msg,            \* the message the attempt printed, None if none
    nsend,          \* history: send_message calls of the attempt
    nrecv,          \* history: receive_message calls of the attempt
    nadd,           \* history: add_record calls of the attempt
    ndisplay,       \* history: display_table calls of the attempt
    nreq,           \* history: handle_request calls that missed so far
    nticks,         \* history: decay ticks so far, where they are counted
    outcome         \* history: how the last attempt ended, "" while none has

cacheVars == <<records, record_number, lock, bgpc, bgi, kept, pre>>
reqVars == <<pc, hostname, qtype, tx_id, inbox, net, resp, pend, msg,
             nsend, nrecv, nadd, ndisplay, nreq, nticks, outcome>>
vars == <<records, record_number, lock, bgpc, bgi, kept, pre, hit, shown, tr,
          pc, hostname, qtype, tx_id, inbox, net, resp, pend, msg,
          nsend, nrecv, nadd, ndisplay, nreq, nticks, outcome>>

(* ------------------------------ RRTable ------------------------------- *)

\* `with self.lock:` can be entered.
LockFreeRacy == TRUE
LockFree == lock = "free"

\* The dict add_record appends.
NewRecordKeepsTtl(number, name, rtype, result, ttl, static) ==
    [record_number |-> number, name |-> name, type |-> rtype,
     result |-> result, ttl |-> ttl, static |-> static]
NewRecord(number, name, rtype, result, ttl, static) ==
    [record_number |-> number, name |-> name, type |-> rtype,
     result |-> result, ttl |-> IF static = 0 THEN ttl ELSE None,
     static |-> static]

\* get_record's test of one record that matches the key.
ValidForLookupAny(rec) == TRUE
ValidForLookup(rec) ==
    rec.static = 1 \/ (rec.ttl # None /\ rec.ttl[1] > 0)

\* get_record's test of the key.
KeyMatchesNameOnly(rec, name, rtype) == rec.name = name
KeyMatches(rec, name, rtype) == rec.name = name /\ rec.type = rtype

\* get_record's scan: the first record in storage order that matches and is
\* valid, or None.
RECURSIVE ScanFrom(_, _, _, _)
ScanFrom(recs, i, name, rtype) ==
    IF i > Len(recs) THEN None
    ELSE IF KeyMatches(recs[i], name, rtype) /\ ValidForLookup(recs[i])
         THEN Some(recs[i])
         ELSE ScanFrom(recs, i + 1, name, rtype)

GetRecord(recs, name, rtype) == ScanFrom(recs, 1, name, rtype)

\* __decrement_ttl's loop body on one record.
DecOneStuck(rec) == rec
DecOne(rec) ==
    IF rec.static = 0 /\ rec.ttl # None /\ rec.ttl[1] > 0
    THEN [rec EXCEPT !.ttl = Some(rec.ttl[1] - 1)]
    ELSE rec

\* __remove_expired_records' test: the record is skipped.
ExpiredOrAbsent(rec) == rec.static = 0 /\ (rec.ttl = None \/ rec.ttl[1] <= 0)
ExpiredStrict(rec) == rec.static = 0 /\ rec.ttl # None /\ rec.ttl[1] < 0
Expired(rec) == rec.static = 0 /\ rec.ttl # None /\ rec.ttl[1] <= 0

\* __remove_expired_records' renumbering of the record at 0-based position i.
RenumberKeeps(rec, i) == rec
Renumber(rec, i) == [rec EXCEPT !.record_number = i]

\* add_record.
add_record(name, rtype, result, ttl, static) ==
    /\ LockFree
    /\ Len(records) < MaxRecs
    /\ records' = Append(records,
                         NewRecord(record_number, name, rtype, result, ttl, static))
    /\ record_number' = record_number + 1
    /\ UNCHANGED <<lock, bgpc, bgi, kept, pre>>

\* get_record, its result kept by the caller.
get_record(name, rtype) ==
    /\ LockFree
    /\ hit' = GetRecord(records, name, rtype)
    /\ UNCHANGED cacheVars

\* display_table: the rows printed, in order.
display_tableValidOnly ==
    /\ LockFree
    /\ shown' = Some(SelectSeq(records, ValidForLookup))
    /\ UNCHANGED cacheVars
display_table ==
    /\ LockFree
    /\ shown' = Some(records)
    /\ UNCHANGED cacheVars

\* __decrement_ttl: `with self.lock:` is entered.
TickAcquire ==
    /\ bgpc = "sleep"
    /\ LockFree
    /\ lock' = "bg"
    /\ bgpc' = "dec"
    /\ bgi' = 1
    /\ pre' = records
    /\ UNCHANGED <<records, record_number, kept>>

\* __decrement_ttl: one turn of `for rec in self.records`.
TickDec ==
    /\ bgpc = "dec"
    /\ IF bgi <= Len(records)
       THEN /\ records' = [records EXCEPT ![bgi] = DecOne(records[bgi])]
            /\ bgi' = bgi + 1
            /\ UNCHANGED <<bgpc, kept>>
       ELSE /\ bgpc' = "scan"
            /\ bgi' = 1
            /\ kept' = <<>>
            /\ UNCHANGED records
    /\ UNCHANGED <<record_number, lock, pre>>

\* __remove_expired_records: one turn of the loop that fills kept.
TickScan ==
    /\ bgpc = "scan"
    /\ IF bgi <= Len(records)
       THEN /\ kept' = IF Expired(records[bgi]) THEN kept
                       ELSE Append(kept, records[bgi])
            /\ bgi' = bgi + 1
            /\ UNCHANGED bgpc
       ELSE /\ bgpc' = "assign"
            /\ UNCHANGED <<bgi, kept>>
    /\ UNCHANGED <<records, record_number, lock, pre>>

\* __remove_expired_records: self.records = kept.
TickAssign ==
    /\ bgpc = "assign"
    /\ records' = kept
    /\ kept' = <<>>
    /\ bgpc' = "renum"
    /\ bgi' = 1
    /\ UNCHANGED <<record_number, lock, pre>>

\* __remove_expired_records: one turn of the renumbering loop, and the
\* counter's reset after it.
TickRenumKeepsCounter ==
    /\ bgpc = "renum"
    /\ IF bgi <= Len(records)
       THEN /\ records' = [records EXCEPT ![bgi] = Renumber(records[bgi], bgi - 1)]
            /\ bgi' = bgi + 1
            /\ UNCHANGED bgpc
       ELSE /\ bgpc' = "release"
            /\ UNCHANGED <<records, bgi>>
    /\ UNCHANGED <<record_number, lock, kept, pre>>
TickRenum ==
    /\ bgpc = "renum"
    /\ IF bgi <= Len(records)
       THEN /\ records' = [records EXCEPT ![bgi] = Renumber(records[bgi], bgi - 1)]
            /\ bgi' = bgi + 1
            /\ UNCHANGED <<bgpc, record_number>>
       ELSE /\ record_number' = Len(records)
            /\ bgpc' = "release"
            /\ UNCHANGED <<records, bgi>>
    /\ UNCHANGED <<lock, kept, pre>>

\* __decrement_ttl: the lock is left, and the thread sleeps.
TickRelease ==
    /\ bgpc = "release"
    /\ lock' = "free"
    /\ bgpc' = "sleep"
    /\ bgi' = 0
    /\ pre' = <<>>
    /\ UNCHANGED <<records, record_number, kept>>

(* ----------------- the cache under arbitrary callers ------------------ *)

Init ==
    /\ records = <<>>
    /\ record_number = 0
    /\ lock = "free"
    /\ bgpc = "sleep"
    /\ bgi = 0
    /\ kept = <<>>
    /\ pre = <<>>
    /\ hit = None
    /\ shown = None
    /\ tr = None
    /\ pc = "idle"
    /\ hostname = ""
    /\ qtype = ""
    /\ tx_id = 0
    /\ inbox = <<>>
    /\ net = {}
    /\ resp = None
    /\ pend = None
    /\ msg = None
    /\ nsend = 0
    /\ nrecv = 0
    /\ nadd = 0
    /\ ndisplay = 0
    /\ nreq = 0
    /\ nticks = 0
    /\ outcome = ""

\* History: the insert the age of which is counted from now on. An insert
\* of a dynamic record with ttl >= 1 under a key no stored record has may
\* become the tracked one; another insert under the tracked key ends it.
TrackAdd(name, rtype, result, ttl, static) ==
    LET fresh == /\ static = 0
                 /\ ttl # None
                 /\ ttl[1] >= 1
                 /\ \A i \in DOMAIN records :
                        ~(records[i].name = name /\ records[i].type = rtype)
        same == tr # None /\ tr[1].name = name /\ tr[1].type = rtype
        new == Some([name |-> name, type |-> rtype, result |-> result,
                     n |-> ttl[1], age |-> 0])
    IN  \/ fresh /\ tr' = new
        \/ ~same /\ tr' = tr
        \/ same /\ ~fresh /\ tr' = None

\* History: one more tick has elapsed since the tracked insert.
TrackTick ==
    tr' = IF tr = None \/ tr[1].age >= AgeCap THEN tr
          ELSE Some([tr[1] EXCEPT !.age = @ + 1])

CallAdd ==
    \E k \in Keys, res \in Results, ttl \in TtlArgs, static \in {0, 1} :
        /\ add_record(k[1], k[2], res, ttl, static)
        /\ hit' = None
        /\ shown' = None
        /\ UNCHANGED <<tr, reqVars>>

CallGet ==
    \E k \in Keys :
        /\ get_record(k[1], k[2])
        /\ UNCHANGED <<shown, tr, reqVars>>

CallDisplay ==
    /\ display_table
    /\ hit' = None
    /\ UNCHANGED <<tr, reqVars>>

NextCache ==
    \/ CallAdd
    \/ CallGet
    \/ CallDisplay
    \/ TickAcquire /\ UNCHANGED <<hit, shown, tr, reqVars>>
    \/ TickDec /\ UNCHANGED <<hit, shown, tr, reqVars>>
    \/ TickScan /\ UNCHANGED <<hit, shown, tr, reqVars>>
    \/ TickAssign /\ UNCHANGED <<hit, shown, tr, reqVars>>
    \/ TickRenum /\ UNCHANGED <<hit, shown, tr, reqVars>>
    \/ TickRelease /\ UNCHANGED <<hit, shown, tr, reqVars>>

SpecCache == Init /\ [][NextCache]_vars

(* ------------- inserts and ticks, one insert's age counted ------------ *)

CallAddTracked ==
    \E k \in Keys, res \in Results, ttl \in TtlArgs, static \in {0, 1} :
        /\ add_record(k[1], k[2], res, ttl, static)
        /\ TrackAdd(k[1], k[2], res, ttl, static)
        /\ UNCHANGED <<hit, shown, reqVars>>

NextTrack ==
    \/ CallAddTracked
    \/ TickAcquire /\ UNCHANGED <<hit, shown, tr, reqVars>>
    \/ TickDec /\ UNCHANGED <<hit, shown, tr, reqVars>>
    \/ TickScan /\ UNCHANGED <<hit, shown, tr, reqVars>>
    \/ TickAssign /\ UNCHANGED <<hit, shown, tr, reqVars>>
    \/ TickRenum /\ UNCHANGED <<hit, shown, tr, reqVars>>
    \/ TickRelease /\ TrackTick /\ UNCHANGED <<hit, shown, reqVars>>

SpecTrack == Init /\ [][NextTrack]_vars

(* --------------------- handle_request and the peer -------------------- *)

\* The values tx_id takes: the clock in milliseconds, cut to 32 bits.
IDs == {1, 2}

\* The ttl the code assumes when an answer carries none.
DefaultTtl == 60

\* A ttl value int() raises on.
Junk == <<0, 0>>

NoResponse == "No response from Local DNS (timeout or socket error)"
MismatchedResponse == "mismatched response; ignoring."

\* The "answer" member of a reply: absent, not a dict, or a dict each of
\* whose members is absent (None) or present.
Answer(form, name, rtype, result, ttl) ==
    [form |-> form, name |-> name, type |-> rtype, result |-> result, ttl |-> ttl]
NoAnswer == Answer("absent", None, None, None, None)
NonDictAnswer == Answer("nondict", None, None, None, None)
EmptyAnswer == Answer("dict", None, None, None, None)

\* The ttl members of the peer's positive answers: absent, not a number,
\* and small integers.
AnswerTtls == {None, Junk} \cup {Some(n) : n \in (-1)..2}

\* The answers the peer gives: none, a malformed one, negative ones, and
\* positive ones over the ttl values and with a name or a type of its own.
Answers ==
    {NoAnswer, NonDictAnswer, EmptyAnswer,
     Answer("dict", None, None, Some(NOT_FOUND), Some(1)),
     Answer("dict", Some("b.com"), None, Some("1.2.3.4"), Some(1)),
     Answer("dict", None, Some("NS"), Some("1.2.3.4"), Some(1))}
    \cup {Answer("dict", None, None, Some("1.2.3.4"), t) : t \in AnswerTtls}

\* A datagram: bytes that are not UTF-8 ("bytes"), text that is not JSON
\* ("text"), JSON that is not an object ("nondict"), or an object.
Datagram(form, id, flag, answer) ==
    [form |-> form, id |-> id, flag |-> flag, answer |-> answer]

Datagrams ==
    {Datagram(f, None, None, NoAnswer) : f \in {"bytes", "text", "nondict"}}
    \cup {Datagram("dict", Some(i), Some(RESP_FLAG), a) : i \in IDs, a \in Answers}
    \cup {Datagram("dict", Some(i), Some(QUERY_FLAG),
                   Answer("dict", None, None, Some("1.2.3.4"), Some(1))) :
            i \in IDs}

\* receive_message: data.decode() succeeds.
Decodes(d) == d.form # "bytes"

\* deserialize: json.loads succeeds.
Parses(d) == d.form \in {"nondict", "dict"}

\* handle_request's test of the reply against the query it sent.
MismatchedFlagOnly(d, id) ==
    d.form # "dict" \/ d.flag # Some(RESP_FLAG)
Mismatched(d, id) ==
    d.form # "dict" \/ d.id # Some(id) \/ d.flag # Some(RESP_FLAG)

\* resp.get("answer", {}).
AnswerOf(d) == IF d.answer.form = "absent" THEN EmptyAnswer ELSE d.answer

\* ans.get("result", NOT_FOUND).
ResultOf(ans) == IF ans.result = None THEN NOT_FOUND ELSE ans.result[1]

\* handle_request's test that the answer is positive.
IsPositiveAlways(result) == TRUE
IsPositive(result) == result # NOT_FOUND

\* int(ans.get("ttl", 60)), for a value int() takes.
TtlOfDefaultOnly(ans) == DefaultTtl
TtlOf(ans) == IF ans.ttl = None THEN DefaultTtl ELSE ans.ttl[1]

\* The arguments of handle_request's add_record call.
AddArgs(ans, host, qt) ==
    [name |-> IF ans.name = None THEN host ELSE ans.name[1],
     type |-> IF ans.type = None THEN qt ELSE ans.type[1],
     result |-> ResultOf(ans),
     ttl |-> Some(TtlOf(ans)),
     static |-> 0]

\* Where handle_request goes once a timeout was caught.
AfterTimeoutRetry == "send"
AfterTimeout == "idle"

\* handle_request from the text received to its next call on the cache: the
\* position reached, the message printed, the add_record to make, and how
\* the attempt has ended if it has.
AfterReceive(d, id, host, qt) ==
    IF ~Parses(d)
    THEN [pc |-> "crashed", msg |-> None, pend |-> None, outcome |-> "Crashed"]
    ELSE IF Mismatched(d, id)
    THEN [pc |-> "idle", msg |-> Some(MismatchedResponse), pend |-> None,
          outcome |-> "Rejected"]
    ELSE IF AnswerOf(d).form # "dict"
    THEN [pc |-> "crashed", msg |-> None, pend |-> None, outcome |-> "Crashed"]
    ELSE IF ~IsPositive(ResultOf(AnswerOf(d)))
    THEN [pc |-> "display", msg |-> None, pend |-> None, outcome |-> "Negative"]
    ELSE IF AnswerOf(d).ttl = Junk
    THEN [pc |-> "crashed", msg |-> None, pend |-> None, outcome |-> "Crashed"]
    ELSE [pc |-> "add", msg |-> None,
          pend |-> Some(AddArgs(AnswerOf(d), host, qt)), outcome |-> "Positive"]

\* The decay thread's whole tick, taken under the lock: every record
\* decremented, the expired ones dropped, the rest renumbered.
DecrementAll(recs) == [i \in DOMAIN recs |-> DecOne(recs[i])]
RemoveExpired(recs) ==
    LET live == SelectSeq(recs, LAMBDA r : ~Expired(r))
    IN  [i \in DOMAIN live |-> Renumber(live[i], i - 1)]

Tick ==
    /\ pc \notin {"exited", "crashed"}
    /\ nticks < MaxTicks
    /\ LockFree
    /\ records' = RemoveExpired(DecrementAll(records))
    /\ record_number' = Len(records')
    /\ nticks' = nticks + 1
    /\ UNCHANGED <<net, lock, bgpc, bgi, kept, pre, hit, shown, tr, pc, hostname,
                   qtype, tx_id, inbox, resp, pend, msg, nsend, nrecv, nadd,
                   ndisplay, nreq, outcome>>

\* handle_request returns to main's loop: its locals are gone.
Returns ==
    /\ pc' = "idle"
    /\ hit' = None
    /\ hostname' = ""
    /\ qtype' = ""
    /\ tx_id' = 0
    /\ resp' = None
    /\ pend' = None

\* main reads a valid line and calls handle_request, which looks the key up.
Start ==
    \E k \in Keys :
        /\ pc = "idle"
        /\ get_record(k[1], k[2])
        /\ hit' = None => nreq < MaxReqs
        /\ nreq' = IF hit' = None THEN nreq + 1 ELSE nreq
        /\ hostname' = k[1]
        /\ qtype' = k[2]
        /\ pc' = IF hit' # None THEN "hit" ELSE "send"
        /\ msg' = None
        /\ shown' = None
        /\ nsend' = 0
        /\ nrecv' = 0
        /\ nadd' = 0
        /\ ndisplay' = 0
        /\ outcome' = ""
        /\ UNCHANGED <<net, tx_id, inbox, resp, pend, tr, nticks>>

\* handle_request on a hit: the table is printed, and it returns.
DisplayHit ==
    /\ pc = "hit"
    /\ display_table
    /\ ndisplay' = ndisplay + 1
    /\ outcome' = "Hit"
    /\ Returns
    /\ UNCHANGED <<net, tr, inbox, msg, nsend, nrecv, nadd, nreq, nticks>>

\* handle_request builds the query with a fresh tx_id and sends it.
Send ==
    \E id \in IDs :
        /\ pc = "send"
        /\ tx_id' = id
        /\ nsend' = nsend + 1
        /\ pc' = "recv"
        /\ UNCHANGED <<net, cacheVars, hit, shown, tr, hostname, qtype, inbox, resp,
                       pend, msg, nrecv, nadd, ndisplay, nreq, nticks, outcome>>

\* receive_message raises socket.timeout: nothing was queued in time.
Timeout ==
    /\ pc = "recv"
    /\ inbox = <<>>
    /\ nrecv' = nrecv + 1
    /\ msg' = Some(NoResponse)
    /\ outcome' = "TimedOut"
    /\ IF AfterTimeout = "idle"
       THEN Returns
       ELSE /\ pc' = AfterTimeout
            /\ UNCHANGED <<hit, hostname, qtype, tx_id, resp, pend>>
    /\ UNCHANGED <<net, cacheVars, shown, tr, inbox, nsend, nadd, ndisplay, nreq,
                   nticks>>

\* receive_message catches an OSError: the socket is closed, sys.exit(1).
TransportFault ==
    /\ pc = "recv"
    /\ nrecv' = nrecv + 1
    /\ pc' = "exited"
    /\ outcome' = "Fault"
    /\ UNCHANGED <<net, cacheVars, hit, shown, tr, hostname, qtype, tx_id, inbox,
                   resp, pend, msg, nsend, nadd, ndisplay, nreq, nticks>>

\* receive_message returns with the oldest datagram queued, d, and decodes
\* its bytes; a UnicodeDecodeError is caught by handle_request like a
\* timeout.
ReceiveOf(d) ==
    /\ pc = "recv"
    /\ inbox # <<>>
    /\ inbox' = Tail(inbox)
    /\ nrecv' = nrecv + 1
    /\ IF Decodes(d)
       THEN /\ pc' = "decode"
            /\ resp' = Some(d)
            /\ UNCHANGED <<hit, hostname, qtype, tx_id, pend, msg, outcome>>
       ELSE /\ msg' = Some(NoResponse)
            /\ outcome' = "Undecodable"
            /\ Returns
    /\ UNCHANGED <<net, cacheVars, shown, tr, nsend, nadd, ndisplay, nreq,
                   nticks>>

\* receive_message where the queue holds the datagrams' ids: what the
\* datagram holds besides its id is drawn here, where it is first read.
Receive ==
    \E d \in Datagrams :
        /\ inbox # <<>>
        /\ d.id = Head(inbox)
        /\ ReceiveOf(d)

\* handle_request deserializes the text and tests the reply.
Process ==
    /\ pc = "decode"
    /\ LET next == AfterReceive(resp[1], tx_id, hostname, qtype)
       IN  /\ msg' = next.msg
           /\ outcome' = next.outcome
           /\ IF next.pc = "idle"
              THEN Returns
              ELSE /\ pc' = next.pc
                   /\ pend' = next.pend
                   /\ UNCHANGED <<hit, hostname, qtype, tx_id, resp>>
    /\ UNCHANGED <<net, cacheVars, shown, tr, inbox, nsend, nrecv, nadd, ndisplay,
                   nreq, nticks>>

\* handle_request installs the positive answer.
Install ==
    /\ pc = "add"
    /\ add_record(pend[1].name, pend[1].type, pend[1].result, pend[1].ttl,
                  pend[1].static)
    /\ nadd' = nadd + 1
    /\ pc' = "display"
    /\ UNCHANGED <<net, hit, shown, tr, hostname, qtype, tx_id, inbox, resp, pend,
                   msg, nsend, nrecv, ndisplay, nreq, nticks, outcome>>

\* handle_request prints the table after a response, and returns.
DisplayEnd ==
    /\ pc = "display"
    /\ display_table
    /\ ndisplay' = ndisplay + 1
    /\ Returns
    /\ UNCHANGED <<net, tr, inbox, msg, nsend, nrecv, nadd, nreq, nticks, outcome>>

\* The peer, or anyone, sends the socket a datagram: one with the id of a
\* query, or one without an id.
Deliver ==
    \E id \in {d.id : d \in Datagrams} :
        /\ pc \notin {"exited", "crashed"}
        /\ Len(inbox) < MaxInbox
        /\ inbox' = Append(inbox, id)
        /\ UNCHANGED <<net, cacheVars, hit, shown, tr, pc, hostname, qtype, tx_id,
                       resp, pend, msg, nsend, nrecv, nadd, ndisplay, nreq,
                       nticks, outcome>>

Next ==
    \/ Start
    \/ DisplayHit
    \/ Send
    \/ Timeout
    \/ TransportFault
    \/ Receive
    \/ Process
    \/ Install
    \/ DisplayEnd
    \/ Deliver
    \/ Tick

Spec == Init /\ [][Next]_vars

(* -------- handle_request and a peer whose replies may be late --------- *)

\* The largest number of datagrams queued in the socket where late replies
\* queue up before the reply awaited.
QueueCap == MaxInbox + 1

\* The peer's reply to the query with this id: a response with that id and
\* a positive answer.
ReplyTo(id) ==
    Datagram("dict", Some(id), Some(RESP_FLAG),
             Answer("dict", None, None, Some("1.2.3.4"), Some(1)))

\* The peer answers the query that is outstanding; the reply is on its way.
Reply ==
    /\ pc = "recv"
    /\ ReplyTo(tx_id) \notin net
    /\ net' = net \cup {ReplyTo(tx_id)}
    /\ UNCHANGED <<cacheVars, hit, shown, tr, pc, hostname, qtype, tx_id, inbox,
                   resp, pend, msg, nsend, nrecv, nadd, ndisplay, nreq, nticks,
                   outcome>>

\* A reply on its way arrives, however late, and is queued in the socket,
\* which is the same socket for every attempt.
Arrive ==
    \E d \in net :
        /\ pc \notin {"exited", "crashed"}
        /\ Len(inbox) < QueueCap
        /\ inbox' = Append(inbox, d)
        /\ net' = net \ {d}
        /\ UNCHANGED <<cacheVars, hit, shown, tr, pc, hostname, qtype, tx_id,
                       resp, pend, msg, nsend, nrecv, nadd, ndisplay, nreq,
                       nticks, outcome>>

\* receive_message where the queue holds the datagrams themselves.
ReceiveQueued ==
    /\ inbox # <<>>
    /\ ReceiveOf(Head(inbox))

NextQueue ==
    \/ Start
    \/ DisplayHit
    \/ Send
    \/ Timeout
    \/ TransportFault
    \/ ReceiveQueued
    \/ Process
    \/ Install
    \/ DisplayEnd
    \/ Reply
    \/ Arrive
    \/ Tick

SpecQueue == Init /\ [][NextQueue]_vars

(* ------------------------- claims: the cache -------------------------- *)

\* The claims' own reading of a record, apart from the model's operators.
Dynamic(rec) == rec.static = 0 /\ rec.ttl # None
Evictable(rec) == Dynamic(rec) /\ rec.ttl[1] <= 0
Unnumbered(rec) == [rec EXCEPT !.record_number = 0]
Aged(rec) ==
    IF Dynamic(rec) /\ rec.ttl[1] >= 1
    THEN [rec EXCEPT !.ttl = Some(rec.ttl[1] - 1)]
    ELSE rec
MapSeq(Op(_), seq) == [i \in DOMAIN seq |-> Op(seq[i])]
NotEvictable(rec) == ~Evictable(rec)
Dense(recs) == \A i \in DOMAIN recs : recs[i].record_number = i - 1
MinOf(S) == CHOOSE x \in S : \A y \in S : x <= y

\* C1: every public operation takes effect while no decay tick is under way
\* (the table a display_table prints and the result a get_record returns are
\* those of a state between ticks, the printed rows densely numbered, and an
\* insert lands between ticks), and the tick's replacement of the list drops
\* nothing but the expired records of the list as it is then: no insert is
\* lost to a tick.
C1_Atomic ==
    [][ /\ (shown' # shown /\ shown' # None)
            => (bgpc = "sleep" /\ shown' = Some(records) /\ Dense(shown'[1]))
        /\ (hit' # hit /\ hit' # None) => bgpc = "sleep"
        /\ Len(records') > Len(records)
            => (bgpc = "sleep" /\ SubSeq(records', 1, Len(records)) = records)
        /\ (bgpc = "assign" /\ bgpc' = "renum")
            => records' = SelectSeq(records, NotEvictable)
      ]_vars

\* C1's witness: a table was printed, and a tick that started after it is
\* between its eviction and its renumbering.
C1_Witness ==
    /\ shown # None
    /\ bgpc = "renum"
    /\ Len(records) >= 1
    /\ Len(records) < Len(shown[1])
    /\ ~Dense(records)

\* Position (1-based) the i-th record of pre takes after the tick, when the
\* records that Survive are the ones kept.
NewPos(Survive(_), i) == Cardinality({j \in 1..i : Survive(pre[j])})

\* The records a tick keeps: static ones, those without a ttl, and the
\* dynamic ones whose ttl was 2 or more before the tick.
SurvivesTick(rec) == ~Dynamic(rec) \/ rec.ttl[1] >= 2

\* The records a tick would keep if a record reaching 0 stayed for one more
\* tick: also the dynamic ones whose ttl was 1.
SurvivesTickLate(rec) == ~Dynamic(rec) \/ rec.ttl[1] >= 1

TtlStepsDown(Survive(_)) ==
    bgpc = "release" =>
        /\ Len(records) = NewPos(Survive, Len(pre))
        /\ Dense(records)
        /\ \A i \in DOMAIN pre :
              Survive(pre[i]) =>
                  /\ NewPos(Survive, i) <= Len(records)
                  /\ Unnumbered(records[NewPos(Survive, i)])
                        = Unnumbered(Aged(pre[i]))

\* C3 (as amended): at the end of every tick a dynamic record that had ttl
\* k >= 2 is still stored with ttl k - 1, a dynamic record that had ttl 1 (or
\* less) is gone in that same tick, and the records are numbered 0..N-1 in
\* the order they had.
C3_TtlStepsDown == TtlStepsDown(SurvivesTick)

\* C3 (as stated): the record whose ttl a tick brings from 1 to 0 is still
\* stored, with ttl 0, at the end of that tick.
C3_AsStated == TtlStepsDown(SurvivesTickLate)

\* C3's witness: a tick ends in which a record went from 1 to 0 and a later
\* record went from 2 or more to one less.
C3_Witness ==
    /\ bgpc = "release"
    /\ \E i, j \in DOMAIN pre :
          /\ i < j
          /\ Dynamic(pre[i]) /\ pre[i].ttl[1] = 1
          /\ Dynamic(pre[j]) /\ pre[j].ttl[1] >= 2

\* C4: at the end of every tick no stored record is non-static with a ttl
\* <= 0, the stored records are the aged records of before the tick without
\* the evicted ones and in the same order, the i-th has record_number i, and
\* the insert counter is their number.
C4_AfterTick ==
    bgpc = "release" =>
        /\ \A i \in DOMAIN records : ~Evictable(records[i])
        /\ MapSeq(Unnumbered, records)
              = SelectSeq(MapSeq(Unnumbered, MapSeq(Aged, pre)), NotEvictable)
        /\ Dense(records)
        /\ record_number = Len(records)

\* C4's witness: a tick ends that evicted the first record and kept a later
\* one.
C4_Witness ==
    /\ bgpc = "release"
    /\ Len(pre) >= 2
    /\ Evictable(Aged(pre[1]))
    /\ Len(records) >= 1
    /\ Len(records) < Len(pre)

\* The positions of the records get_record may return for a key.
ValidAt(name, rtype) ==
    {i \in DOMAIN records :
        /\ records[i].name = name
        /\ records[i].type = rtype
        /\ (records[i].static = 1
            \/ (records[i].ttl # None /\ records[i].ttl[1] > 0))}

\* C5: in every state get_record returns, for every key, the record at the
\* least position that matches the key and is valid for lookup, and None
\* exactly when there is no such position.
C5_FirstValid ==
    \A k \in Keys :
        LET at == ValidAt(k[1], k[2])
        IN  GetRecord(records, k[1], k[2])
              = IF at = {} THEN None ELSE Some(records[MinOf(at)])

\* C5's witness: get_record returned the second of two records of one key,
\* the first of which is not valid.
C5_Witness ==
    /\ lock = "free"
    /\ Len(records) >= 2
    /\ records[1].name = records[2].name
    /\ records[1].type = records[2].type
    /\ records[1].static = 0
    /\ hit = Some(records[2])

\* The static records in storage order, record_number left out.
Statics(recs) ==
    SelectSeq(MapSeq(Unnumbered, recs), LAMBDA r : r.static = 1)

\* C6: a static record has no ttl, a tick under way has neither removed nor
\* changed one (record_number apart), and get_record on a static record's
\* key returns a record that is valid for lookup.
C6_StaticStays ==
    /\ \A i \in DOMAIN records : records[i].static = 1 => records[i].ttl = None
    /\ lock = "bg" => Statics(records) = Statics(pre)
    /\ \A i \in DOMAIN records :
          records[i].static = 1 =>
              LET got == GetRecord(records, records[i].name, records[i].type)
              IN  /\ got # None
                  /\ got[1].name = records[i].name
                  /\ got[1].type = records[i].type
                  /\ (got[1].static = 1
                      \/ (got[1].ttl # None /\ got[1].ttl[1] > 0))

\* C6's witness: a tick ends that evicted a record stored before a static
\* one, which is found by a lookup of its key.
C6_Witness ==
    /\ bgpc = "release"
    /\ Len(pre) >= 2
    /\ Evictable(Aged(pre[1]))
    /\ pre[2].static = 1
    /\ Len(records) = 1
    /\ records[1].static = 1

\* C7: with the lock free, a lookup of the tracked insert's key returns the
\* inserted record while fewer ticks than its ttl n have elapsed, and None
\* once n + 1 or more have.
C7_Expires ==
    (lock = "free" /\ tr # None) =>
        LET t == tr[1]
            got == GetRecord(records, t.name, t.type)
        IN  /\ t.age < t.n =>
                /\ got # None
                /\ got[1].name = t.name
                /\ got[1].type = t.type
                /\ got[1].result = t.result
                /\ got[1].static = 0
                /\ got[1].ttl = Some(t.n - t.age)
            /\ t.age >= t.n + 1 => got = None

\* C7's witness: three ticks after an insert with ttl 2 (Scenario A), other
\* records being stored.
C7_Witness ==
    /\ lock = "free"
    /\ tr # None
    /\ tr[1].n = 2
    /\ tr[1].age = 3
    /\ Len(records) >= 1

(* ---------------------- claims: handle_request ------------------------ *)

\* The claims' own reading of a reply.
IdOrFlagDiffers(d, id) ==
    d.form = "dict" /\ (d.id # Some(id) \/ d.flag # Some(RESP_FLAG))
Correlated(d, id) ==
    d.form = "dict" /\ d.id = Some(id) /\ d.flag = Some(RESP_FLAG)
CarriesPositive(d) ==
    /\ d.answer.form = "dict"
    /\ d.answer.result # None
    /\ d.answer.result # Some(NOT_FOUND)
CarriesNegative(d) ==
    \/ d.answer.form = "absent"
    \/ d.answer.form = "dict"
       /\ (d.answer.result = None \/ d.answer.result = Some(NOT_FOUND))
CannotBeDecoded(d, id) ==
    \/ d.form = "text"
    \/ Correlated(d, id) /\ d.answer.form = "nondict"
    \/ Correlated(d, id) /\ CarriesPositive(d) /\ d.answer.ttl = Junk
CacheUntouched ==
    records' = records /\ record_number' = record_number

\* C2: when handle_request tests a reply whose id is not the id it sent, or
\* whose flag is not the response flag, the attempt ends there: it returns
\* without an add_record, the records and the insert counter as they were.
C2_MismatchNotInstalled ==
    [][ (pc = "decode" /\ pc' # "decode" /\ IdOrFlagDiffers(resp[1], tx_id))
            => /\ pc' = "idle"
               /\ CacheUntouched
               /\ nadd = 0
               /\ nadd' = 0
               /\ pend' = None
      ]_vars

\* C2's witness: a reply with another id than the one sent, a response by
\* its flag and carrying a positive answer, is about to be tested.
C2_Witness ==
    /\ pc = "decode"
    /\ resp[1].form = "dict"
    /\ resp[1].id # Some(tx_id)
    /\ resp[1].flag = Some(RESP_FLAG)
    /\ CarriesPositive(resp[1])
    /\ resp[1].answer.ttl = Some(2)

\* C8: the step on which the receive times out ends the attempt: "no
\* response" is printed, control is back in the command loop, the cache is
\* as it was, and the attempt made one send, one receive and no add_record.
C8_TimeoutEndsAttempt ==
    [][ (pc = "recv" /\ outcome' = "TimedOut")
            => /\ pc' = "idle"
               /\ msg' = Some(NoResponse)
               /\ CacheUntouched
               /\ nsend' = 1
               /\ nrecv' = 1
               /\ nadd' = 0
               /\ inbox' = inbox
      ]_vars

\* C8's witness: an attempt has timed out with a record in the cache.
C8_Witness ==
    /\ outcome = "TimedOut"
    /\ pc = "idle"
    /\ msg = Some(NoResponse)
    /\ nsend = 1
    /\ Len(records) >= 1

\* C9 (as stated): a reply that cannot be decoded, or that decodes to a
\* malformed envelope, never ends the process: handle_request does not
\* unwind with an exception.
C9_UndecodableRejected ==
    (resp # None /\ CannotBeDecoded(resp[1], tx_id)) => pc # "crashed"

\* C10: a correctly correlated response whose result is the sentinel, or
\* that carries no result or no answer, leads to the final display without
\* an add_record, and an attempt that ended so has made none.
C10_NegativeNotInstalled ==
    /\ (/\ resp # None
        /\ pc \notin {"decode", "crashed"}
        /\ Correlated(resp[1], tx_id)
        /\ CarriesNegative(resp[1]))
            => (pc = "display" /\ pend = None /\ nadd = 0 /\ outcome = "Negative")
    /\ outcome = "Negative" => nadd = 0

\* C10's witness: the attempt is at its final display after a correlated
\* response with the sentinel, a record being cached.
C10_Witness ==
    /\ pc = "display"
    /\ resp # None
    /\ Correlated(resp[1], tx_id)
    /\ resp[1].answer.result = Some(NOT_FOUND)
    /\ Len(records) >= 1

\* The reply an install rests on is a correlated response with a positive
\* result and a ttl that is absent or an integer.
WellFormedPositive(d, id) ==
    /\ Correlated(d, id)
    /\ CarriesPositive(d)
    /\ d.answer.ttl # Junk

\* C11: a correlated response with a positive result, once tested, leads to
\* the add_record call and to nothing else, and the attempt makes that call
\* once; the call appends one record after the stored ones, which stay as
\* they are: the new record is dynamic, has the answer's result, the answer's
\* ttl (60 when it has none) and the insert counter of before as its
\* record_number, and the counter goes up by 1.
C11_PositiveInstalled ==
    [][ /\ (pc = "decode" /\ pc' # "decode"
                /\ WellFormedPositive(resp[1], tx_id))
            => (pc' = "add" /\ pend' # None /\ nadd' = 0 /\ CacheUntouched)
        /\ nadd' # nadd /\ nadd' # 0
            => /\ pc = "add"
               /\ WellFormedPositive(resp[1], tx_id)
               /\ nadd = 0
               /\ nadd' = 1
               /\ Len(records') = Len(records) + 1
               /\ SubSeq(records', 1, Len(records)) = records
               /\ record_number' = record_number + 1
               /\ LET new == records'[Len(records')]
                      ans == resp[1].answer
                  IN  /\ new.static = 0
                      /\ new.result = ans.result[1]
                      /\ new.ttl = IF ans.ttl = None THEN Some(60) ELSE ans.ttl
                      /\ new.record_number = record_number
        /\ (pc = "display" /\ pc' = "idle" /\ outcome = "Positive") => nadd = 1
      ]_vars

\* C11's witness: an answer without a ttl was installed after a stored
\* record, with ttl 60, and the attempt is at its final display.
C11_Witness ==
    /\ pc = "display"
    /\ outcome = "Positive"
    /\ nadd = 1
    /\ resp[1].answer.ttl = None
    /\ Len(records) = 2
    /\ records[2].ttl = Some(60)
    /\ records[2].record_number = 1

\* C12 (as stated): an attempt that has returned control to the command
\* loop, however it ended, has printed the table exactly once, and nothing
\* after it.
C12_DisplayedOnce ==
    (pc = "idle" /\ outcome # "") => (ndisplay = 1 /\ shown # None)

\* C13: handle_request takes the hit path exactly when a record that is
\* valid for lookup is stored under the key asked for; on the hit path
\* nothing was sent, received or added, and the step that ends it prints the
\* table and returns with the records, their order and the counter as they
\* were and the socket's queue untouched. A query is sent only from an
\* attempt whose get_record returned None, no valid record being stored
\* under the key when it was called.
C13_HitSendsNothing ==
    [][ /\ (pc = "idle" /\ pc' # "idle")
            => /\ CacheUntouched
               /\ pc' = IF ValidAt(hostname', qtype') # {} THEN "hit" ELSE "send"
               /\ pc' = "hit" => (hit' # None /\ hit'[1] \in {records[i] : i \in ValidAt(hostname', qtype')})
               /\ pc' = "send" => hit' = None
        /\ pc = "hit"
            => /\ nsend = 0 /\ nrecv = 0 /\ nadd = 0 /\ hit # None
               /\ pc' \in {"hit", "idle"}
               /\ nsend' = 0 /\ nrecv' = 0 /\ nadd' = 0
               /\ inbox' = inbox \/ pc' = "hit"
               /\ pc' = "idle" => (CacheUntouched /\ ndisplay' = 1
                                   /\ shown' = Some(records) /\ outcome' = "Hit")
        /\ nsend' > nsend => (pc = "send" /\ hit = None /\ nsend = 0)
      ]_vars

\* C13's witness: an attempt has ended on the hit path, a record stored
\* before the hit one, the table printed.
C13_Witness ==
    /\ pc = "idle"
    /\ outcome = "Hit"
    /\ nsend = 0
    /\ ndisplay = 1
    /\ Len(records) = 2
    /\ records[1].name # records[2].name
    /\ Dynamic(records[2]) /\ records[2].ttl[1] = 1
    /\ shown = Some(records)

\* How an attempt that sent a query may end: Answered (with a positive or a
\* negative answer), TimedOut (the "no response" report, also given for
\* bytes that are not text) or Rejected.
TerminalStates == {"Positive", "Negative", "TimedOut", "Undecodable", "Rejected"}

\* C14 (as stated): an attempt makes at most one send and, after it, at most
\* one receive; once its receive is over and the reply, if any, tested, it
\* is in one of the terminal states Answered, TimedOut and Rejected, the
\* transport fault that ends the process apart; and a Rejected attempt has
\* returned after its one send and one receive.
C14_OneTerminalState ==
    /\ nsend <= 1
    /\ nrecv <= nsend
    /\ (nrecv = 1 /\ pc # "decode" /\ outcome # "Fault")
            => outcome \in TerminalStates
    /\ outcome = "Rejected" => (pc = "idle" /\ nsend = 1 /\ nrecv = 1)

(* ---------------------- claims: the cache, again ---------------------- *)

\* A malformed dynamic record: not static, and without a ttl.
Malformed(rec) == rec.static = 0 /\ rec.ttl = None
WellFormed(rec) == ~Malformed(rec)
Malformeds(recs) == SelectSeq(MapSeq(Unnumbered, recs), Malformed)

\* C15: throughout a tick the malformed dynamic records are those the tick
\* found, in their order and with their fields (record_number apart); at the
\* tick's end each of them is stored at the position the evictions before it
\* leave it, numbered by that position, and the other records are the aged
\* ones of before without the evicted; and the decay thread can always go
\* on: to its next statement within a tick, to its next tick once the lock
\* is free.
C15_MalformedUntouched ==
    /\ lock = "bg" => Malformeds(records) = Malformeds(pre)
    /\ bgpc = "release" =>
          /\ \A i \in DOMAIN pre :
                Malformed(pre[i]) =>
                    LET j == NewPos(SurvivesTick, i)
                    IN  /\ j \in DOMAIN records
                        /\ Unnumbered(records[j]) = Unnumbered(pre[i])
                        /\ records[j].record_number = j - 1
          /\ SelectSeq(MapSeq(Unnumbered, records), WellFormed)
                = SelectSeq(SelectSeq(MapSeq(Unnumbered, MapSeq(Aged, pre)),
                                      NotEvictable), WellFormed)
    /\ lock = "bg" =>
          ENABLED (TickDec \/ TickScan \/ TickAssign \/ TickRenum \/ TickRelease)
    /\ (lock = "free" /\ bgpc = "sleep") => ENABLED TickAcquire

\* C15's witness: a tick ends that evicted the first record and left the
\* malformed dynamic record stored after it in place, now numbered 0.
C15_Witness ==
    /\ bgpc = "release"
    /\ Len(pre) = 2
    /\ Evictable(Aged(pre[1]))
    /\ Malformed(pre[2])
    /\ pre[2].record_number = 1
    /\ Len(records) = 1
    /\ Malformed(records[1])
    /\ records[1].record_number = 0

\* C16: a get_record call and a display_table call leave every record, the
\* order of the records and the insert counter as they were; display_table
\* prints every stored record, in storage order, valid for lookup or not;
\* and a display_table call made while the records are those the last call
\* printed prints the same rows in the same order.
C16_ReadOnly ==
    [][ /\ (CallGet \/ CallDisplay) => CacheUntouched
        /\ CallDisplay => shown' = Some(records)
        /\ (CallDisplay /\ shown # None /\ shown[1] = records) => shown' = shown
      ]_vars

\* C16's witness: the table was printed with a record in it that is not
\* valid for lookup, and a get_record call after it returned the record
\* stored behind that one, the table and the records being the same still.
C16_Witness ==
    /\ lock = "free"
    /\ shown = Some(records)
    /\ Len(records) = 2
    /\ Dynamic(records[1]) /\ records[1].ttl[1] <= 0
    /\ records[1].name = records[2].name /\ records[1].type = records[2].type
    /\ hit = Some(records[2])

\* C18: whenever the lock is free the insert counter is the number of
\* stored records, the record at 0-based position i has record_number i, and
\* no two stored records have the same record_number.
C18_CounterIsLength ==
    lock = "free" =>
        /\ record_number = Len(records)
        /\ Dense(records)
        /\ \A i, j \in DOMAIN records :
              i # j => records[i].record_number # records[j].record_number

\* C18's witness: the tracked insert, of ttl 1, was evicted by a tick, and
\* a record inserted since that tick is stored behind an older one.
C18_Witness ==
    /\ lock = "free"
    /\ tr # None
    /\ tr[1].n = 1
    /\ tr[1].age = 1
    /\ GetRecord(records, tr[1].name, tr[1].type) = None
    /\ Len(records) = 2
    /\ Dynamic(records[2]) /\ records[2].ttl[1] = MaxTtl
    /\ record_number = 2

(* ------------------ claims: handle_request, again --------------------- *)

\* C17 (as stated): every stored record's ttl is absent or a non-negative
\* integer, whatever the peer has answered and however many ticks have run.
C17_TtlNonNegative ==
    \A i \in DOMAIN records :
        records[i].ttl = None \/ records[i].ttl[1] >= 0

\* C19 (as stated): the record an add_record call of handle_request appends
\* has the hostname and the type the attempt looked up and queried.
C19_InsertedKeyIsAsked ==
    [][ nadd' > nadd
            => /\ records'[Len(records')].name = hostname
               /\ records'[Len(records')].type = qtype
      ]_vars

\* The attempt's own reply, a correlated response with a positive answer, is
\* queued in the socket.
OwnReplyQueued ==
    \E i \in DOMAIN inbox : WellFormedPositive(inbox[i], tx_id)

\* C20 (as stated): an attempt whose own positive response has arrived in
\* the socket's queue when its receive returns a datagram is given that
\* response, and does not end Rejected, whatever earlier attempts have left
\* in the queue.
C20_OwnReplyAnswers ==
    [][ /\ (pc = "recv" /\ pc' = "decode" /\ OwnReplyQueued)
            => WellFormedPositive(resp'[1], tx_id)
        /\ (pc = "decode" /\ pc' # "decode" /\ OwnReplyQueued)
            => outcome' # "Rejected"
      ]_vars

====
